---- MODULE Spec2Model ----
(***************************************************************************)
(* Disaster Advisor (src/app.py): the hazard-signal aggregation engine.    *)
(*                                                                         *)
(* One assessment request, collect_signals_for_location, is modelled step  *)
(* by step: every outbound call (geocoder, seismic feed, weather/forecast  *)
(* feed, archive feed, point-of-interest service) is one step whose answer *)
(* is chosen by the environment.  The classifiers are operators computed   *)
(* as the code computes them.                                              *)
(*                                                                         *)
(* Encodings.  Magnitudes are in tenths (45 is 4.5).  A Python value that  *)
(* may be None is <<>> (None) or <<v>>.  A Python dict is a record, and    *)
(* `"k" in d` is "k" \in DOMAIN d.  A float is <<"fin", n>>, <<"inf", 0>>  *)
(* or <<"nan", 0>>.  An HTTP answer is a record whose field ok is FALSE    *)
(* when the call raised (network failure, timeout, unparsable body).  The  *)
(* "raw" response copies kept in the result dicts are left out, except     *)
(* where a result can only be told apart by them.                          *)
(***************************************************************************)
EXTENDS Integers, Sequences, FiniteSets, TLC

VARIABLES
    pc,                 \* position inside collect_signals_for_location
    place_or_latlon,    \* the request: the input string, split at its commas
    lat, lon,           \* the resolved coordinate (None until resolved)
    earthquake, weather, shelters, hospitals,
    snowfall, hurricane, tsunami, wildfire,   \* the per-source result dicts
    calls,              \* history: every outbound call, in order, with its answer
    ret,                \* what collect_signals_for_location returned
    flood               \* the Flood tab's result dict

vars == <<pc, place_or_latlon, lat, lon, earthquake, weather, shelters, hospitals,
          snowfall, hurricane, tsunami, wildfire, calls, ret, flood>>

(***************************************************************************)
(* Bounds                                                                  *)
(***************************************************************************)
\* the most points of interest one Overpass answer holds
MaxFound == 2

(***************************************************************************)
(* Values                                                                  *)
(***************************************************************************)
None == <<>>
Some(v) == <<v>>
IsNone(o) == o = <<>>
Val(o) == o[1]

Pending == [pending |-> TRUE]
IsPending(r) == "pending" \in DOMAIN r
IsError(r) == "error" \in DOMAIN r

\* dict.get(key) with a default of None
Get(d, key) == IF key \in DOMAIN d THEN Some(d[key]) ELSE None

Fin(n) == <<"fin", n>>
Inf == <<"inf", 0>>
NaN == <<"nan", 0>>
IsFinite(f) == f[1] = "fin"

Failed == [ok |-> FALSE]

RECURSIVE MaxOf(_, _)
\* the running maximum of a sequence of integers, starting from acc
MaxOf(s, acc) ==
    IF s = <<>> THEN acc
    ELSE MaxOf(Tail(s), IF Head(s) > acc THEN Head(s) ELSE acc)

RECURSIVE MinOf(_, _)
MinOf(s, acc) ==
    IF s = <<>> THEN acc
    ELSE MinOf(Tail(s), IF Head(s) < acc THEN Head(s) ELSE acc)

RECURSIVE SumOf(_)
SumOf(s) == IF s = <<>> THEN 0 ELSE Head(s) + SumOf(Tail(s))

\* [v or d for v in s]: None and 0 are both falsy
OrDefault(s, d) ==
    [i \in 1..Len(s) |-> IF IsNone(s[i]) \/ Val(s[i]) = 0 THEN d ELSE Val(s[i])]

RECURSIVE Insert(_, _)
Insert(x, s) ==
    IF s = <<>> THEN <<x>>
    ELSE IF x <= Head(s) THEN <<x>> \o s
    ELSE <<Head(s)>> \o Insert(x, Tail(s))

RECURSIVE SortAsc(_)
\* list.sort(key=distance_km): stable ascending sort
SortAsc(s) == IF s = <<>> THEN <<>> ELSE Insert(Head(s), SortAsc(Tail(s)))

\* s[:n]
Take(s, n) == SubSeq(s, 1, IF Len(s) < n THEN Len(s) ELSE n)

(***************************************************************************)
(* Geocoder and input parsing                                              *)
(***************************************************************************)
\* float(tok.strip()) over the vocabulary of the inputs below: None when it raises
ParseFloat(tok) ==
    CASE tok = "10"  -> Some(Fin(10))
      [] tok = "20"  -> Some(Fin(20))
      [] tok = "95"  -> Some(Fin(95))
      [] tok = "200" -> Some(Fin(200))
      [] tok = "inf" -> Some(Inf)
      [] tok = "nan" -> Some(NaN)
      [] OTHER       -> None

\* lines 387-393: the literal-coordinate attempt; <<lat, lon>> or None
ParseLatLon(input) ==
    IF Len(input) >= 2
    THEN LET p0 == ParseFloat(input[1])
             p1 == ParseFloat(input[2])
         IN  IF IsNone(p0) \/ IsNone(p1) THEN None ELSE Some(<<Val(p0), Val(p1)>>)
    ELSE None

\* geocode_place falling back to the origin when the place is not found
geocode_place_origin(resp) ==
    IF ~resp.ok THEN [error |-> "service unavailable"]
    ELSE IF IsNone(resp.loc) THEN [lat |-> Fin(0), lon |-> Fin(0)]
    ELSE [lat |-> Fin(Val(resp.loc)[1]), lon |-> Fin(Val(resp.loc)[2])]


geocode_place(resp) ==
    IF ~resp.ok THEN [error |-> "service unavailable"]
    ELSE IF IsNone(resp.loc) THEN [error |-> "could not geocode"]
    ELSE [lat |-> Fin(Val(resp.loc)[1]), lon |-> Fin(Val(resp.loc)[2])]

(***************************************************************************)
(* Hazard source clients and classifiers                                   *)
(***************************************************************************)
quake_mag_threshold == 65
schools_max_results == 5
hospitals_max_results == 8

\* check_earthquake with the possible flag on an exclusive threshold
check_earthquake_exclusive(resp) ==
    IF ~resp.ok THEN [error |-> "seismic feed failure"]
    ELSE LET max_mag == MaxOf(OrDefault(resp.mags, 0), 0)
         IN  [possible |-> max_mag > 45,
              magnitude_estimate |-> max_mag,
              count |-> Len(resp.mags)]

check_earthquake(resp) ==
    IF ~resp.ok THEN [error |-> "seismic feed failure"]
    ELSE LET max_mag == MaxOf(OrDefault(resp.mags, 0), 0)
         IN  [possible |-> max_mag >= 45,
              magnitude_estimate |-> max_mag,
              count |-> Len(resp.mags)]

get_weather(resp) ==
    IF ~resp.ok THEN [error |-> "weather feed failure"]
    ELSE [temperature_c |-> resp.temperature, wind_kph |-> resp.windspeed]

find_schools(resp) ==
    IF ~resp.ok THEN [error |-> "overpass failure"]
    ELSE [shelters |-> Take(SortAsc(resp.found), schools_max_results)]

find_hospitals(resp) ==
    IF ~resp.ok THEN [error |-> "overpass failure"]
    ELSE [hospitals |-> Take(SortAsc(resp.found), hospitals_max_results)]

\* check_snowfall with the fallback thresholds on the wrong side of zero
check_snowfall_warm_fallback(resp) ==
    IF ~resp.ok THEN [error |-> "forecast feed failure"]
    ELSE IF ~IsNone(resp.snowfall_sum) /\ Val(resp.snowfall_sum) # <<>>
    THEN LET vals == OrDefault(Val(resp.snowfall_sum), 0)
             max_snow == MaxOf(Tail(vals), Head(vals))
             sev == IF max_snow >= 10 THEN "high"
                    ELSE IF max_snow >= 2 THEN "moderate" ELSE "low"
         IN  [possible |-> max_snow > 0, max_snowfall |-> max_snow, severity |-> sev]
    ELSE IF IsNone(resp.temperature)
    THEN [error |-> "no snowfall or current_weather data"]
    ELSE LET temp == Val(resp.temperature)
             sev == IF temp < -5 THEN "moderate" ELSE "low"
         IN  [possible |-> temp < 0, max_snowfall |-> 0, severity |-> sev]

check_snowfall(resp) ==
    IF ~resp.ok THEN [error |-> "forecast feed failure"]
    ELSE IF ~IsNone(resp.snowfall_sum) /\ Val(resp.snowfall_sum) # <<>>
    THEN LET vals == OrDefault(Val(resp.snowfall_sum), 0)
             max_snow == MaxOf(Tail(vals), Head(vals))
             sev == IF max_snow >= 10 THEN "high"
                    ELSE IF max_snow >= 2 THEN "moderate" ELSE "low"
         IN  [possible |-> max_snow > 0, max_snowfall |-> max_snow, severity |-> sev]
    ELSE IF IsNone(resp.temperature)
    THEN [error |-> "no snowfall or current_weather data"]
    ELSE LET temp == Val(resp.temperature)
             sev == IF temp <= -5 THEN "moderate" ELSE "low"
         IN  [possible |-> temp <= 0, max_snowfall |-> 0, severity |-> sev]

\* check_hurricane keeping a default classification beside the error
check_hurricane_defaulting(resp) ==
    IF ~resp.ok
    THEN [error |-> "forecast feed failure", possible |-> FALSE,
          max_wind_kph |-> 0, severity |-> "low"]
    ELSE IF \E i \in 1..Len(resp.windspeed_10m) : IsNone(resp.windspeed_10m[i])
    THEN [error |-> "TypeError"]
    ELSE LET winds == [i \in 1..Len(resp.windspeed_10m) |-> Val(resp.windspeed_10m[i])]
             max_wind == IF winds # <<>> THEN MaxOf(Tail(winds), Head(winds)) ELSE 0
             sev == IF max_wind >= 100 THEN "high"
                    ELSE IF max_wind >= 75 THEN "moderate" ELSE "low"
         IN  [possible |-> max_wind >= 50, max_wind_kph |-> max_wind, severity |-> sev]

check_hurricane(resp) ==
    IF ~resp.ok THEN [error |-> "forecast feed failure"]
    ELSE IF \E i \in 1..Len(resp.windspeed_10m) : IsNone(resp.windspeed_10m[i])
    THEN [error |-> "TypeError"]     \* max() or >= on a None entry raises
    ELSE LET winds == [i \in 1..Len(resp.windspeed_10m) |-> Val(resp.windspeed_10m[i])]
             max_wind == IF winds # <<>> THEN MaxOf(Tail(winds), Head(winds)) ELSE 0
             sev == IF max_wind >= 100 THEN "high"
                    ELSE IF max_wind >= 75 THEN "moderate" ELSE "low"
         IN  [possible |-> max_wind >= 50, max_wind_kph |-> max_wind, severity |-> sev]

\* lines 235-260: the nearest coastline centre, None when the query fails or finds none
min_coast_dist(coast) ==
    IF ~coast.ok THEN None
    ELSE IF coast.centers # <<>>
    THEN Some(MinOf(Tail(coast.centers), Head(coast.centers)))
    ELSE None

\* tsunami_decision with the magnitude threshold exclusive
tsunami_decision_exclusive(max_mag, dist) ==
    IF max_mag > quake_mag_threshold /\ (IsNone(dist) \/ Val(dist) <= 100)
    THEN [possible |-> TRUE, severity |-> IF max_mag >= 70 THEN "high" ELSE "moderate"]
    ELSE IF max_mag > quake_mag_threshold
    THEN [possible |-> TRUE, severity |-> "moderate"]
    ELSE [possible |-> FALSE, severity |-> "low"]

\* tsunami_decision with a far coastline read as "no tsunami"
tsunami_decision_far_is_safe(max_mag, dist) ==
    IF max_mag >= quake_mag_threshold /\ (IsNone(dist) \/ Val(dist) <= 100)
    THEN [possible |-> TRUE, severity |-> IF max_mag >= 70 THEN "high" ELSE "moderate"]
    ELSE [possible |-> FALSE, severity |-> "low"]

\* lines 261-271: (possible, severity) from the magnitude and the coastline distance
tsunami_decision(max_mag, dist) ==
    IF max_mag >= quake_mag_threshold /\ (IsNone(dist) \/ Val(dist) <= 100)
    THEN [possible |-> TRUE, severity |-> IF max_mag >= 70 THEN "high" ELSE "moderate"]
    ELSE IF max_mag >= quake_mag_threshold
    THEN [possible |-> TRUE, severity |-> "moderate"]
    ELSE [possible |-> FALSE, severity |-> "low"]

\* check_tsunami running on a stale empty event list when the seismic query failed
check_tsunami_ignoring_failure(quake, coast) ==
    LET dist == IF ~coast.ok \/ coast.centers = <<>> THEN None
                ELSE Some(MinOf(Tail(coast.centers), Head(coast.centers)))
        max_mag == IF quake.ok THEN MaxOf(OrDefault(quake.mags, 0), 0) ELSE 0
    IN  [possible |-> max_mag >= 65,
         max_quake_magnitude |-> max_mag,
         quake_count |-> IF quake.ok THEN Len(quake.mags) ELSE 0,
         min_coast_distance_km |-> dist,
         severity |-> IF max_mag < 65 THEN "low"
                      ELSE IF max_mag >= 70 /\ (IsNone(dist) \/ Val(dist) <= 100)
                      THEN "high" ELSE "moderate"]


check_tsunami(quake, coast) ==
    LET quake_info == check_earthquake(quake)
    IN  IF IsError(quake_info) THEN [error |-> "quake feed error"]
        ELSE LET max_mag == quake_info.magnitude_estimate
                 dist == min_coast_dist(coast)
                 dec == tsunami_decision(max_mag, dist)
             IN  [possible |-> dec.possible,
                  max_quake_magnitude |-> max_mag,
                  quake_count |-> quake_info.count,
                  min_coast_distance_km |-> dist,
                  severity |-> dec.severity]

\* wildfire_severity with the dryness thresholds inclusive
wildfire_severity_inclusive(precip_last7, max_temp_last7, wind_kph) ==
    IF precip_last7 <= 5 /\ (~IsNone(max_temp_last7) /\ Val(max_temp_last7) >= 30)
       /\ wind_kph >= 30
    THEN "high"
    ELSE IF precip_last7 <= 10 /\ wind_kph >= 20 THEN "moderate"
    ELSE "low"

\* lines 292-297
wildfire_severity(precip_last7, max_temp_last7, wind_kph) ==
    IF precip_last7 < 5 /\ (~IsNone(max_temp_last7) /\ Val(max_temp_last7) >= 30)
       /\ wind_kph >= 30
    THEN "high"
    ELSE IF precip_last7 < 10 /\ wind_kph >= 20 THEN "moderate"
    ELSE "low"

check_wildfire(arch, cur) ==
    IF ~arch.ok THEN [error |-> "archive feed failure"]
    ELSE LET precip_last7 == SumOf(OrDefault(arch.precipitation_sum, 0))
             temps == OrDefault(arch.temperature_2m_max, -999)
             max_temp_last7 == IF temps # <<>>
                               THEN Some(MaxOf(Tail(temps), Head(temps))) ELSE None
             curw == get_weather(cur)
             w == IF IsError(curw) THEN None ELSE curw.wind_kph
             wind_kph == IF IsNone(w) THEN 0 ELSE Val(w)
             temp_now == IF IsError(curw) THEN None ELSE curw.temperature_c
         IN  [precip_last7_mm |-> precip_last7,
              max_temp_last7_c |-> max_temp_last7,
              wind_kph_now |-> wind_kph,
              temp_now_c |-> temp_now,
              severity |-> wildfire_severity(precip_last7, max_temp_last7, wind_kph),
              current_weather |-> curw]

\* precip_hours[-24:]
LastDay(s) == IF Len(s) <= 24 THEN s ELSE SubSeq(s, Len(s) - 23, Len(s))

\* flood_severity with the historical sum counted even when it is small
flood_severity_any_history(forecast_24h, recent_24h, sum7) ==
    IF forecast_24h >= 50 \/ recent_24h >= 50 THEN "high"
    ELSE IF (forecast_24h >= 20 \/ recent_24h >= 20) \/ ~IsNone(sum7)
    THEN "moderate"
    ELSE "low"

\* lines 373-379
flood_severity(forecast_24h, recent_24h, sum7) ==
    IF forecast_24h >= 50 \/ recent_24h >= 50 THEN "high"
    ELSE IF (forecast_24h >= 20 \/ recent_24h >= 20)
            \/ (~IsNone(sum7) /\ Val(sum7) >= 100)
    THEN "moderate"
    ELSE "low"

\* lines 347-383: fore is the hourly forecast answer, hist the 7-day archive answer
check_flood(fore, hist) ==
    IF ~fore.ok THEN [error |-> "forecast feed failure"]
    ELSE IF \E i \in 1..Len(fore.precipitation) :
               i <= 24 /\ IsNone(fore.precipitation[i])
    THEN [error |-> "TypeError"]     \* sum() over a None entry raises (line 353)
    ELSE LET precip_hours == fore.precipitation
             first == Take(precip_hours, 24)
             last == LastDay(precip_hours)
             forecast_24h == SumOf([i \in 1..Len(first) |-> Val(first[i])])
             \* lines 357-361: a failing sum leaves recent_24h at 0.0
             recent_24h == IF \E i \in 1..Len(last) : IsNone(last[i]) THEN 0
                           ELSE SumOf([i \in 1..Len(last) |-> Val(last[i])])
             sum7 == IF ~hist.ok THEN None
                     ELSE Some(SumOf(OrDefault(hist.precipitation_sum, 0)))
             severity == flood_severity(forecast_24h, recent_24h, sum7)
         IN  [possible |-> severity # "low",
              severity |-> severity,
              evidence |-> [forecast_24h_mm |-> forecast_24h,
                            recent_24h_mm_approx |-> recent_24h,
                            precip_last7_mm |-> sum7]]

(***************************************************************************)
(* Aggregator: final severities and action plan                            *)
(***************************************************************************)
HazardOrder == <<"earthquake", "snowfall", "hurricane", "tsunami", "wildfire">>

\* quake_severity_label with the High threshold exclusive
quake_severity_label_exclusive(mag) ==
    IF IsNone(mag) THEN "low"
    ELSE IF Val(mag) > 65 THEN "high"
    ELSE IF Val(mag) >= 45 THEN "moderate"
    ELSE "low"

\* lines 414-422; mag is severities["earthquake"], None when the result has none
quake_severity_label(mag) ==
    IF IsNone(mag) THEN "low"
    ELSE IF Val(mag) >= 65 THEN "high"
    ELSE IF Val(mag) >= 45 THEN "moderate"
    ELSE "low"

\* severities[k] with a missing severity passed on instead of defaulted
OrLow_unknown(sev) == IF IsNone(sev) THEN "unknown" ELSE Val(sev)

\* severities[k] or "low"
OrLow(sev) == IF IsNone(sev) THEN "low" ELSE Val(sev)

\* lines 407-430
FinalSeverities(eq, sn, hu, ts, wf) ==
    [earthquake |-> quake_severity_label(Get(eq, "magnitude_estimate")),
     snowfall   |-> OrLow(Get(sn, "severity")),
     hurricane  |-> OrLow(Get(hu, "severity")),
     tsunami    |-> OrLow(Get(ts, "severity")),
     wildfire   |-> OrLow(Get(wf, "severity"))]

\* hosp_list naming every hospital found
hosp_list_untruncated(hosp) ==
    IF "hospitals" \in DOMAIN hosp THEN hosp.hospitals ELSE <<>>

\* lines 432-441: the (at most three) references a block names
hosp_list(hosp) ==
    IF "hospitals" \in DOMAIN hosp THEN Take(hosp.hospitals, 3) ELSE <<>>

shelter_list(shel) ==
    IF "shelters" \in DOMAIN shel THEN Take(shel.shelters, 3) ELSE <<>>

Header(d, sev) == [line |-> "header", hazard |-> d, sev |-> sev]
Directive(d, n) == [line |-> "directive", hazard |-> d, n |-> n]
HospLine(d, l) == [line |-> "hospitals", hazard |-> d, refs |-> l]
ShelLine(d, l) == [line |-> "shelters", hazard |-> d, refs |-> l]
TsunamiWarning == [line |-> "tsunami_warning", hazard |-> "earthquake"]

\* the hospital and shelter lines of a block, each only when its list is not empty
Resources(d, hosp, shel) ==
    (IF hosp_list(hosp) # <<>> THEN <<HospLine(d, hosp_list(hosp))>> ELSE <<>>)
    \o (IF shelter_list(shel) # <<>> THEN <<ShelLine(d, shelter_list(shel))>> ELSE <<>>)

\* plan_for_disaster raising the tsunami warning only for a high tsunami severity
plan_for_disaster_high_only(d_type, sev, final, hosp, shel) ==
    IF sev = "low" THEN <<>>
    ELSE <<Header(d_type, sev)>> \o
         (CASE d_type = "earthquake" ->
                   <<Directive(d_type, 1), Directive(d_type, 2)>>
                   \o Resources(d_type, hosp, shel)
                   \o (IF final.tsunami = "high" THEN <<TsunamiWarning>> ELSE <<>>)
            [] d_type = "tsunami" ->
                   <<Directive(d_type, 1)>> \o Resources(d_type, hosp, shel)
            [] d_type \in {"hurricane", "snowfall", "wildfire"} ->
                   <<Directive(d_type, 1), Directive(d_type, 2)>>
                   \o Resources(d_type, hosp, shel)
            [] OTHER -> <<>>)

\* lines 442-471: the lines one call appends to action_plan
plan_for_disaster(d_type, sev, final, hosp, shel) ==
    IF sev = "low" THEN <<>>
    ELSE <<Header(d_type, sev)>> \o
         (CASE d_type = "earthquake" ->
                   <<Directive(d_type, 1), Directive(d_type, 2)>>
                   \o Resources(d_type, hosp, shel)
                   \o (IF final.tsunami \in {"high", "moderate"}
                       THEN <<TsunamiWarning>> ELSE <<>>)
            [] d_type = "tsunami" ->
                   <<Directive(d_type, 1)>> \o Resources(d_type, hosp, shel)
            [] d_type \in {"hurricane", "snowfall", "wildfire"} ->
                   <<Directive(d_type, 1), Directive(d_type, 2)>>
                   \o Resources(d_type, hosp, shel)
            [] OTHER -> <<>>)

RECURSIVE PlanFrom_reversed(_, _, _, _)
\* the plan built by walking the hazards from the last to the first
PlanFrom_reversed(i, final, hosp, shel) ==
    IF i > Len(HazardOrder) THEN <<>>
    ELSE PlanFrom_reversed(i + 1, final, hosp, shel)
         \o plan_for_disaster(HazardOrder[i], final[HazardOrder[i]], final, hosp, shel)

RECURSIVE PlanFrom(_, _, _, _)
\* lines 472-473: for d, sev in final_severities.items()
PlanFrom(i, final, hosp, shel) ==
    IF i > Len(HazardOrder) THEN <<>>
    ELSE plan_for_disaster(HazardOrder[i], final[HazardOrder[i]], final, hosp, shel)
         \o PlanFrom(i + 1, final, hosp, shel)

\* line 474: the combined report
Combined(la, lo, eq, we, sh, ho, sn, hu, ts, wf) ==
    LET final == FinalSeverities(eq, sn, hu, ts, wf)
    IN  [lat |-> la, lon |-> lo, earthquake |-> eq, weather |-> we,
         shelters |-> sh, hospitals |-> ho, snowfall |-> sn, hurricane |-> hu,
         tsunami |-> ts, wildfire |-> wf, final_severities |-> final,
         action_plan |-> PlanFrom(1, final, ho, sh)]

(***************************************************************************)
(* The environment: what the services may answer                           *)
(***************************************************************************)
\* "Paris" / "Paris, France" / "10, abc" / "10,20" / "95,200" / "inf,20" / "10,20,abc"
Inputs ==
    { <<"abc">>, <<"abc", "def">>, <<"10", "abc">>,
      <<"10", "20">>, <<"95", "200">>, <<"inf", "20">>, <<"10", "20", "abc">> }

\* Nominatim answers with a place on the globe, with no match, or not at all
GeoAnswers ==
    { Failed, [ok |-> TRUE, loc |-> None], [ok |-> TRUE, loc |-> Some(<<13, 80>>)] }

Mags(S) == { [ok |-> TRUE, mags |-> m] : m \in S }

QuakeAnswers ==
    {Failed} \cup Mags({ <<None>>, <<Some(44)>>, <<Some(45)>>,
                         <<Some(30), Some(64)>>, <<Some(65)>> })

WeatherAnswers ==
    { Failed, [ok |-> TRUE, temperature |-> Some(25), windspeed |-> Some(30)] }

\* n points of interest, the farthest first
Desc(n) == [i \in 1..n |-> 2 * (n + 1 - i)]

PoiAnswers == {Failed} \cup { [ok |-> TRUE, found |-> Desc(n)] : n \in 0..MaxFound }

SnowAnswers ==
    { Failed,
      [ok |-> TRUE, snowfall_sum |-> None, temperature |-> None],
      [ok |-> TRUE, snowfall_sum |-> Some(<<Some(0)>>), temperature |-> None],
      [ok |-> TRUE, snowfall_sum |-> Some(<<Some(3), None>>), temperature |-> None],
      [ok |-> TRUE, snowfall_sum |-> Some(<<Some(1), Some(12)>>), temperature |-> None] }

WindAnswers ==
    {Failed} \cup { [ok |-> TRUE, windspeed_10m |-> w] :
                      w \in { <<>>, <<Some(80)>>, <<Some(60), Some(120)>>,
                              <<Some(60), None>> } }

TsunamiQuakeAnswers == {Failed} \cup Mags({ <<Some(30)>>, <<Some(72)>> })

CoastAnswers == { Failed, [ok |-> TRUE, centers |-> <<150>>] }

ArchiveAnswers ==
    { Failed,
      [ok |-> TRUE, precipitation_sum |-> <<Some(1), None>>,
                    temperature_2m_max |-> <<Some(32)>>] }

WildfireWeatherAnswers ==
    { Failed,
      [ok |-> TRUE, temperature |-> Some(25), windspeed |-> Some(35)],
      [ok |-> TRUE, temperature |-> Some(25), windspeed |-> Some(25)] }

Call(svc, by, resp) == [svc |-> svc, by |-> by, resp |-> resp]

(***************************************************************************)
(* collect_signals_for_location, one step per call                         *)
(***************************************************************************)
Init ==
    /\ pc = "start"
    /\ place_or_latlon \in Inputs
    /\ lat = None /\ lon = None
    /\ earthquake = Pending /\ weather = Pending
    /\ shelters = Pending /\ hospitals = Pending
    /\ snowfall = Pending /\ hurricane = Pending
    /\ tsunami = Pending /\ wildfire = Pending
    /\ calls = <<>>
    /\ ret = Pending
    /\ flood = Pending

\* lines 387-394: try the input as a literal coordinate
ParseInput ==
    /\ pc = "start"
    /\ LET ll == ParseLatLon(place_or_latlon)
       IN  IF IsNone(ll)
           THEN /\ pc' = "geocode"
                /\ UNCHANGED <<lat, lon>>
           ELSE /\ pc' = "earthquake"
                /\ lat' = Some(Val(ll)[1])
                /\ lon' = Some(Val(ll)[2])
    /\ UNCHANGED <<flood, place_or_latlon, earthquake, weather, shelters, hospitals,
                   snowfall, hurricane, tsunami, wildfire, calls, ret>>

\* lines 394-398
Geocode ==
    /\ pc = "geocode"
    /\ \E resp \in GeoAnswers :
         LET g == geocode_place(resp)
         IN  /\ calls' = Append(calls, Call("geocoder", "geocode_place", resp))
             /\ IF IsError(g)
                THEN /\ ret' = [error |-> "geocode failure", cause |-> g.error]
                     /\ pc' = "done"
                     /\ UNCHANGED <<lat, lon>>
                ELSE /\ lat' = Some(g.lat)
                     /\ lon' = Some(g.lon)
                     /\ pc' = "earthquake"
                     /\ UNCHANGED ret
    /\ UNCHANGED <<flood, place_or_latlon, earthquake, weather, shelters, hospitals,
                   snowfall, hurricane, tsunami, wildfire>>

\* line 399
Earthquake(Answers) ==
    /\ pc = "earthquake"
    /\ \E resp \in Answers :
         /\ earthquake' = check_earthquake(resp)
         /\ calls' = Append(calls, Call("seismic", "check_earthquake", resp))
    /\ pc' = "weather"
    /\ UNCHANGED <<flood, place_or_latlon, lat, lon, weather, shelters, hospitals,
                   snowfall, hurricane, tsunami, wildfire, ret>>

\* line 400
Weather ==
    /\ pc = "weather"
    /\ \E resp \in WeatherAnswers :
         /\ weather' = get_weather(resp)
         /\ calls' = Append(calls, Call("forecast", "get_weather", resp))
    /\ pc' = "shelters"
    /\ UNCHANGED <<flood, place_or_latlon, lat, lon, earthquake, shelters, hospitals,
                   snowfall, hurricane, tsunami, wildfire, ret>>

\* line 401
Shelters ==
    /\ pc = "shelters"
    /\ \E resp \in PoiAnswers :
         /\ shelters' = find_schools(resp)
         /\ calls' = Append(calls, Call("overpass", "find_schools", resp))
    /\ pc' = "hospitals"
    /\ UNCHANGED <<flood, place_or_latlon, lat, lon, earthquake, weather, hospitals,
                   snowfall, hurricane, tsunami, wildfire, ret>>

\* line 402
Hospitals ==
    /\ pc = "hospitals"
    /\ \E resp \in PoiAnswers :
         /\ hospitals' = find_hospitals(resp)
         /\ calls' = Append(calls, Call("overpass", "find_hospitals", resp))
    /\ pc' = "snowfall"
    /\ UNCHANGED <<flood, place_or_latlon, lat, lon, earthquake, weather, shelters,
                   snowfall, hurricane, tsunami, wildfire, ret>>

\* line 403
Snowfall(Answers) ==
    /\ pc = "snowfall"
    /\ \E resp \in Answers :
         /\ snowfall' = check_snowfall(resp)
         /\ calls' = Append(calls, Call("forecast", "check_snowfall", resp))
    /\ pc' = "hurricane"
    /\ UNCHANGED <<flood, place_or_latlon, lat, lon, earthquake, weather, shelters,
                   hospitals, hurricane, tsunami, wildfire, ret>>

\* line 404
Hurricane(Answers) ==
    /\ pc = "hurricane"
    /\ \E resp \in Answers :
         /\ hurricane' = check_hurricane(resp)
         /\ calls' = Append(calls, Call("forecast", "check_hurricane", resp))
    /\ pc' = "tsunami"
    /\ UNCHANGED <<flood, place_or_latlon, lat, lon, earthquake, weather, shelters,
                   hospitals, snowfall, tsunami, wildfire, ret>>

\* line 405: the seismic query, then (only if it answered) the coastline query
Tsunami(QAnswers, CAnswers) ==
    /\ pc = "tsunami"
    /\ \E quake \in QAnswers :
         LET q == Call("seismic", "check_tsunami", quake)
         IN  IF ~quake.ok
             THEN /\ tsunami' = check_tsunami(quake, Failed)
                  /\ calls' = Append(calls, q)
             ELSE \E coast \in CAnswers :
                  /\ tsunami' = check_tsunami(quake, coast)
                  /\ calls' = calls \o <<q, Call("overpass", "check_tsunami", coast)>>
    /\ pc' = "wildfire"
    /\ UNCHANGED <<flood, place_or_latlon, lat, lon, earthquake, weather, shelters,
                   hospitals, snowfall, hurricane, wildfire, ret>>

\* line 406: the archive query, then (only if it answered) the current weather
Wildfire(AAnswers, WAnswers) ==
    /\ pc = "wildfire"
    /\ \E arch \in AAnswers :
         LET a == Call("archive", "check_wildfire", arch)
         IN  IF ~arch.ok
             THEN /\ wildfire' = check_wildfire(arch, Failed)
                  /\ calls' = Append(calls, a)
             ELSE \E cur \in WAnswers :
                  /\ wildfire' = check_wildfire(arch, cur)
                  /\ calls' = calls \o <<a, Call("forecast", "check_wildfire", cur)>>
    /\ pc' = "assemble"
    /\ UNCHANGED <<flood, place_or_latlon, lat, lon, earthquake, weather, shelters,
                   hospitals, snowfall, hurricane, tsunami, ret>>

\* lines 407-475
Assemble ==
    /\ pc = "assemble"
    /\ ret' = Combined(Val(lat), Val(lon), earthquake, weather, shelters, hospitals,
                       snowfall, hurricane, tsunami, wildfire)
    /\ pc' = "done"
    /\ UNCHANGED <<flood, place_or_latlon, lat, lon, earthquake, weather, shelters,
                   hospitals, snowfall, hurricane, tsunami, wildfire, calls>>

Next ==
    \/ ParseInput
    \/ Geocode
    \/ Earthquake(QuakeAnswers)
    \/ Weather
    \/ Shelters
    \/ Hospitals
    \/ Snowfall(SnowAnswers)
    \/ Hurricane(WindAnswers)
    \/ Tsunami(TsunamiQuakeAnswers, CoastAnswers)
    \/ Wildfire(ArchiveAnswers, WildfireWeatherAnswers)
    \/ Assemble

Spec == Init /\ [][Next]_vars

(***************************************************************************)
(* check_tsunami on its own, over a finer grid of magnitudes and coastline *)
(* distances                                                               *)
(***************************************************************************)
TsunamiGridQuakeAnswers ==
    {Failed} \cup Mags({ <<>>, <<None>>, <<Some(64)>>, <<Some(65)>>, <<Some(66)>>,
                         <<Some(69), Some(30)>>, <<Some(70)>>, <<Some(30), Some(72)>> })

TsunamiGridCoastAnswers ==
    {Failed} \cup { [ok |-> TRUE, centers |-> c] :
                      c \in { <<>>, <<50>>, <<100>>, <<101>>, <<150, 120>>, <<150, 40>> } }

\* check_tsunami(lat, lon) is about to be called for a literal coordinate
InitTsunami ==
    /\ pc = "tsunami"
    /\ place_or_latlon \in { i \in Inputs : ~IsNone(ParseLatLon(i)) }
    /\ lat = Some(Val(ParseLatLon(place_or_latlon))[1])
    /\ lon = Some(Val(ParseLatLon(place_or_latlon))[2])
    /\ earthquake = Pending /\ weather = Pending
    /\ shelters = Pending /\ hospitals = Pending
    /\ snowfall = Pending /\ hurricane = Pending
    /\ tsunami = Pending /\ wildfire = Pending
    /\ calls = <<>>
    /\ ret = Pending
    /\ flood = Pending

NextTsunami == Tsunami(TsunamiGridQuakeAnswers, TsunamiGridCoastAnswers)

SpecTsunami == InitTsunami /\ [][NextTsunami]_vars

(***************************************************************************)
(* Properties                                                              *)
(***************************************************************************)
Hazards == {"earthquake", "snowfall", "hurricane", "tsunami", "wildfire"}
Severities == {"low", "moderate", "high"}
Fetchers == {"check_earthquake", "get_weather", "find_schools", "find_hospitals",
             "check_snowfall", "check_hurricane", "check_tsunami", "check_wildfire"}

Resolved == ~IsNone(lat) /\ ~IsNone(lon)
Returned == pc = "done"
IsReport(r) == "final_severities" \in DOMAIN r
Reported == Returned /\ IsReport(ret)

CallsBy(by, svc) == { i \in 1..Len(calls) : calls[i].by = by /\ calls[i].svc = svc }
CallsTo(svcs) == { i \in 1..Len(calls) : calls[i].svc \in svcs }
AnswerTo(by, svc) == calls[CHOOSE i \in CallsBy(by, svc) : TRUE].resp
Attempted(by) == \E i \in 1..Len(calls) : calls[i].by = by

\* the result carries the evidence its final severity is read from
HasEvidence(h, r) ==
    IF h = "earthquake" THEN "magnitude_estimate" \in DOMAIN r
    ELSE "severity" \in DOMAIN r

Rank(sev) == CASE sev = "low" -> 0 [] sev = "moderate" -> 1 [] sev = "high" -> 2

\* C1: once a coordinate is resolved the request ends in a report, never in an
\* error value; all eight fetches were attempted whichever of them failed; and
\* the report holds, for each of the five hazards, one result that is either
\* error-tagged or carries evidence, never both and never neither.
C1_AlwaysReport ==
    (Returned /\ Resolved) =>
        /\ IsReport(ret)
        /\ ~IsError(ret)
        /\ \A f \in Fetchers : Attempted(f)
        /\ \A h \in Hazards :
             /\ h \in DOMAIN ret
             /\ ~IsPending(ret[h])
             /\ IsError(ret[h]) <=> ~HasEvidence(h, ret[h])

C1_Witness ==
    /\ Reported
    /\ IsError(ret.earthquake) /\ IsError(ret.shelters) /\ IsError(ret.hurricane)
    /\ ~IsError(ret.snowfall) /\ ~IsError(ret.wildfire)

\* every call to the seismic feed failed (and there was one)
SeismicDown ==
    /\ CallsTo({"seismic"}) # {}
    /\ \A i \in CallsTo({"seismic"}) : ~calls[i].resp.ok

\* every call to the weather/forecast feed (forecast and archive) answered with
\* the data asked for
WeatherUp ==
    /\ \A i \in CallsTo({"forecast", "archive"}) : calls[i].resp.ok
    /\ \A i \in CallsBy("check_snowfall", "forecast") :
         ~IsNone(calls[i].resp.snowfall_sum) \/ ~IsNone(calls[i].resp.temperature)
    /\ \A i \in CallsBy("check_hurricane", "forecast") :
         \A j \in 1..Len(calls[i].resp.windspeed_10m) :
            ~IsNone(calls[i].resp.windspeed_10m[j])

\* C2 as stated: with the seismic feed down and the weather feed up, the report
\* has an error-tagged earthquake result and valid results for snowfall,
\* hurricane, tsunami and wildfire.
C2_Original ==
    (Returned /\ Resolved /\ SeismicDown /\ WeatherUp) =>
        /\ IsReport(ret)
        /\ IsError(ret.earthquake)
        /\ \A h \in {"snowfall", "hurricane", "tsunami", "wildfire"} :
             ~IsError(ret[h]) /\ HasEvidence(h, ret[h])

\* C2 amended: with the seismic feed down and the weather feed up, the report
\* has error-tagged earthquake and tsunami results (tsunami reads the seismic
\* feed) and valid results for snowfall, hurricane and wildfire.
C2_PartialFailure ==
    (Returned /\ Resolved /\ SeismicDown /\ WeatherUp) =>
        /\ IsReport(ret)
        /\ IsError(ret.earthquake) /\ ~HasEvidence("earthquake", ret.earthquake)
        /\ IsError(ret.tsunami) /\ ~HasEvidence("tsunami", ret.tsunami)
        /\ \A h \in {"snowfall", "hurricane", "wildfire"} :
             ~IsError(ret[h]) /\ HasEvidence(h, ret[h])

C2_Witness ==
    /\ Reported /\ SeismicDown /\ WeatherUp
    /\ ret.wildfire.severity = "high"

\* C3: a hazard whose result is an error, or lacks its severity evidence, has
\* final severity low, and its error is still in the report's result for that
\* hazard; every final severity is low, moderate or high.
C3_MissingEvidenceIsLow ==
    Reported =>
        /\ \A h \in Hazards :
             /\ (IsError(ret[h]) \/ ~HasEvidence(h, ret[h]))
                   => ret.final_severities[h] = "low"
             /\ ret.final_severities[h] \in Severities
        /\ (IsError(earthquake) => IsError(ret.earthquake))
        /\ (IsError(snowfall) => IsError(ret.snowfall))
        /\ (IsError(hurricane) => IsError(ret.hurricane))
        /\ (IsError(tsunami) => IsError(ret.tsunami))
        /\ (IsError(wildfire) => IsError(ret.wildfire))

C3_Witness ==
    /\ Reported
    /\ IsError(ret.tsunami) /\ IsError(ret.snowfall)
    /\ ret.final_severities.tsunami = "low"
    /\ ret.final_severities.earthquake = "high"

GeocodeRefused(resp) == ~resp.ok \/ IsNone(resp.loc)

\* C4: a failed geocoding (no match, or the service failing) ends the request at
\* once with an error and no hazard or proximity fetch; and whenever any hazard or
\* proximity fetch has been made, a coordinate had been resolved.
C4_GeocodeFailureIsFatal ==
    /\ \A i \in CallsTo({"geocoder"}) :
         GeocodeRefused(calls[i].resp) =>
            /\ Returned /\ IsError(ret) /\ ~IsReport(ret)
            /\ Len(calls) = 1
    /\ (CallsTo({"seismic", "forecast", "archive", "overpass"}) # {}) => Resolved
    /\ (~Resolved /\ pc # "start" /\ pc # "geocode") => (Returned /\ IsError(ret))

C4_Witness ==
    /\ Returned /\ IsError(ret)
    /\ ret.cause = "could not geocode"
    /\ Len(calls) = 1

\* the input's first two comma-separated components are floats, both finite (text
\* after a second comma is ignored, as line 390 ignores it)
IsFiniteLiteral(input) ==
    /\ Len(input) >= 2
    /\ ~IsNone(ParseFloat(input[1])) /\ IsFinite(Val(ParseFloat(input[1])))
    /\ ~IsNone(ParseFloat(input[2])) /\ IsFinite(Val(ParseFloat(input[2])))

\* C5: a "<float>,<float>" input with both components finite is taken as the
\* coordinate without calling the geocoder; every other input calls the geocoder
\* exactly once.
C5_LiteralShortCircuit ==
    (pc # "start" /\ pc # "geocode") =>
        IF IsFiniteLiteral(place_or_latlon)
        THEN /\ CallsTo({"geocoder"}) = {}
             /\ lat = ParseFloat(place_or_latlon[1])
             /\ lon = ParseFloat(place_or_latlon[2])
        ELSE Cardinality(CallsTo({"geocoder"})) = 1

InRange(f, lo, hi) == IsFinite(f) /\ lo <= f[2] /\ f[2] <= hi

\* C6: every coordinate handed to a hazard or proximity fetch has its latitude
\* in [-90, 90] and its longitude in [-180, 180].
C6_CoordinateInRange ==
    (CallsTo({"seismic", "forecast", "archive", "overpass"}) # {}) =>
        /\ Resolved
        /\ InRange(Val(lat), -90, 90)
        /\ InRange(Val(lon), -180, 180)

\* the severity table of the earthquake hazard, by magnitude in tenths
QuakeTable(m) == IF m < 45 THEN "low" ELSE IF m < 65 THEN "moderate" ELSE "high"

\* C7: the earthquake final severity is the table's label of the result's maximum
\* magnitude (below 4.5 low, from 4.5 below 6.5 moderate, from 6.5 high), that
\* magnitude is the largest the feed reported, and the label never decreases
\* with a larger magnitude.
C7_QuakeSeverityTable ==
    (Reported /\ ~IsError(ret.earthquake)) =>
        LET m == ret.earthquake.magnitude_estimate
            ev == AnswerTo("check_earthquake", "seismic").mags
        IN  /\ ret.final_severities.earthquake = QuakeTable(m)
            /\ \A j \in 1..Len(ev) : ~IsNone(ev[j]) => Val(ev[j]) <= m
            /\ (m > 0 => \E j \in 1..Len(ev) : ev[j] = Some(m))
            /\ \A k \in {0, 44, 45, 64, 65, 90} :
                 /\ k <= m => Rank(quake_severity_label(Some(k)))
                                 <= Rank(ret.final_severities.earthquake)
                 /\ k >= m => Rank(quake_severity_label(Some(k)))
                                 >= Rank(ret.final_severities.earthquake)

C7_Witness ==
    /\ Reported /\ ~IsError(ret.earthquake)
    /\ ret.earthquake.magnitude_estimate = 65
    /\ ret.final_severities.earthquake = "high"

C7_WitnessModerate ==
    /\ Reported /\ ~IsError(ret.earthquake)
    /\ ret.earthquake.magnitude_estimate = 64
    /\ ret.final_severities.earthquake = "moderate"

TsunamiChecked == pc = "wildfire" /\ ~IsPending(tsunami)

\* the coastline distance a run of check_tsunami worked with, from its answers
CoastDistanceSeen ==
    LET c == AnswerTo("check_tsunami", "overpass")
    IN  IF ~c.ok \/ c.centers = <<>> THEN None
        ELSE Some(CHOOSE d \in {c.centers[j] : j \in 1..Len(c.centers)} :
                    \A j \in 1..Len(c.centers) : d <= c.centers[j])

\* C8: check_tsunami with threshold 6.5: a maximum magnitude below 6.5 gives
\* possible = false and severity low whatever the coastline distance; a magnitude
\* of 6.5 or more with the coastline distance unknown or at most 100 km gives
\* possible = true and severity high from 7.0, moderate below.
C8_TsunamiTable ==
    (TsunamiChecked /\ ~IsError(tsunami)) =>
        LET m == tsunami.max_quake_magnitude
            d == tsunami.min_coast_distance_km
            ev == AnswerTo("check_tsunami", "seismic").mags
        IN  /\ d = CoastDistanceSeen
            /\ \A j \in 1..Len(ev) : ~IsNone(ev[j]) => Val(ev[j]) <= m
            /\ (m < 65 => ~tsunami.possible /\ tsunami.severity = "low")
            /\ (m >= 65 /\ (IsNone(d) \/ Val(d) <= 100)) =>
                  /\ tsunami.possible
                  /\ tsunami.severity = IF m >= 70 THEN "high" ELSE "moderate"

C8_Witness ==
    /\ TsunamiChecked /\ ~IsError(tsunami)
    /\ tsunami.max_quake_magnitude = 72
    /\ tsunami.min_coast_distance_km = Some(40)
    /\ tsunami.possible /\ tsunami.severity = "high"

\* C9 as stated: with the same earthquake evidence, every coastline-distance
\* outcome gives the same severity and the same possible flag.
C9_Original ==
    (TsunamiChecked /\ ~IsError(tsunami)) =>
        \A c \in TsunamiGridCoastAnswers :
            LET r == check_tsunami(AnswerTo("check_tsunami", "seismic"), c)
            IN  r.severity = tsunami.severity /\ r.possible = tsunami.possible

Near(d) == IsNone(d) \/ Val(d) <= 100

\* C9 amended: with the same earthquake evidence, every coastline-distance
\* outcome gives the same possible flag, and the same severity as long as the
\* magnitude is below 7.0 or both distances are unknown or at most 100 km; at
\* magnitude 7.0 or more a nearest coastline centre farther than 100 km gives
\* moderate where a near or unknown one gives high.
C9_CoastDistanceEffect ==
    (TsunamiChecked /\ ~IsError(tsunami)) =>
        \A c \in TsunamiGridCoastAnswers :
            LET r == check_tsunami(AnswerTo("check_tsunami", "seismic"), c)
                m == tsunami.max_quake_magnitude
                d1 == tsunami.min_coast_distance_km
                d2 == r.min_coast_distance_km
            IN  /\ r.possible = tsunami.possible
                /\ (m < 70 \/ (Near(d1) <=> Near(d2))) => r.severity = tsunami.severity
                /\ (m >= 70 /\ Near(d1) /\ ~Near(d2)) =>
                      tsunami.severity = "high" /\ r.severity = "moderate"

C9_Witness ==
    /\ TsunamiChecked /\ ~IsError(tsunami)
    /\ tsunami.max_quake_magnitude >= 70
    /\ tsunami.min_coast_distance_km = Some(120)
    /\ tsunami.severity = "moderate"

\* C10: a tsunami check whose seismic query failed yields an error result, with
\* no severity and no possible flag.
C10_TsunamiNeedsQuake ==
    \A i \in CallsBy("check_tsunami", "seismic") :
        ~calls[i].resp.ok =>
            /\ IsError(tsunami)
            /\ "severity" \notin DOMAIN tsunami
            /\ "possible" \notin DOMAIN tsunami
            /\ CallsBy("check_tsunami", "overpass") = {}

C10_Witness ==
    /\ Reported
    /\ ~IsError(ret.earthquake)
    /\ IsError(ret.tsunami)
    /\ ret.final_severities.earthquake = "high"

(***************************************************************************)
(* check_wildfire on its own, over a grid of precipitation, temperature    *)
(* and wind                                                                *)
(***************************************************************************)
WildfireGridArchiveAnswers ==
    {Failed} \cup
    { [ok |-> TRUE, precipitation_sum |-> p, temperature_2m_max |-> t] :
        p \in { <<>>, <<Some(4)>>, <<Some(3), Some(2)>>, <<Some(9), None>>,
                <<Some(10)>>, <<Some(20)>> },
        t \in { <<>>, <<Some(29), Some(0)>>, <<Some(30)>>, <<None, Some(31)>> } }

WildfireGridWeatherAnswers ==
    {Failed} \cup
    { [ok |-> TRUE, temperature |-> Some(25), windspeed |-> w] :
        w \in { None, Some(5), Some(19), Some(20), Some(25), Some(29), Some(30),
                Some(35) } }

\* check_wildfire(lat, lon) is about to be called for a literal coordinate
InitWildfire ==
    /\ pc = "wildfire"
    /\ place_or_latlon \in { i \in Inputs : ~IsNone(ParseLatLon(i)) }
    /\ lat = Some(Val(ParseLatLon(place_or_latlon))[1])
    /\ lon = Some(Val(ParseLatLon(place_or_latlon))[2])
    /\ earthquake = Pending /\ weather = Pending
    /\ shelters = Pending /\ hospitals = Pending
    /\ snowfall = Pending /\ hurricane = Pending
    /\ tsunami = Pending /\ wildfire = Pending
    /\ calls = <<>>
    /\ ret = Pending
    /\ flood = Pending

NextWildfire == Wildfire(WildfireGridArchiveAnswers, WildfireGridWeatherAnswers)

SpecWildfire == InitWildfire /\ [][NextWildfire]_vars

WildfireChecked == pc = "assemble" /\ ~IsPending(wildfire)

\* C11: a wildfire check whose get_weather call failed yields an error result,
\* not a severity.
C11_WildfireNeedsWeather ==
    \A i \in CallsBy("check_wildfire", "forecast") :
        ~calls[i].resp.ok =>
            /\ IsError(wildfire)
            /\ "severity" \notin DOMAIN wildfire

RECURSIVE SumKnown(_)
\* the sum of the values a daily series reports
SumKnown(s) ==
    IF s = <<>> THEN 0
    ELSE (IF IsNone(Head(s)) THEN 0 ELSE Val(Head(s))) + SumKnown(Tail(s))

\* C12: check_wildfire gives high when the 7-day precipitation sum is below 5,
\* the 7-day maximum temperature is at least 30 and the current wind at least 30;
\* otherwise moderate when the precipitation sum is below 10 and the wind at
\* least 20; otherwise low.  The three inputs are the ones the feeds reported.
C12_WildfireTable ==
    (WildfireChecked /\ ~IsError(wildfire)) =>
        LET a == AnswerTo("check_wildfire", "archive")
            w == AnswerTo("check_wildfire", "forecast")
            precip7 == SumKnown(a.precipitation_sum)
            hot == \E j \in 1..Len(a.temperature_2m_max) :
                      /\ ~IsNone(a.temperature_2m_max[j])
                      /\ Val(a.temperature_2m_max[j]) >= 30
            wind == IF w.ok /\ ~IsNone(w.windspeed) THEN Val(w.windspeed) ELSE 0
        IN  /\ wildfire.precip_last7_mm = precip7
            /\ wildfire.wind_kph_now = wind
            /\ wildfire.severity =
                 IF precip7 < 5 /\ hot /\ wind >= 30 THEN "high"
                 ELSE IF precip7 < 10 /\ wind >= 20 THEN "moderate"
                 ELSE "low"

C12_Witness ==
    /\ WildfireChecked /\ ~IsError(wildfire)
    /\ wildfire.precip_last7_mm = 4
    /\ wildfire.max_temp_last7_c = Some(31)
    /\ wildfire.wind_kph_now = 35
    /\ wildfire.severity = "high"

C12_WitnessModerate ==
    /\ WildfireChecked /\ ~IsError(wildfire)
    /\ wildfire.precip_last7_mm = 9
    /\ wildfire.wind_kph_now = 25
    /\ wildfire.severity = "moderate"

(***************************************************************************)
(* The Flood tab: check_flood(lat, lon), called once a report is shown     *)
(***************************************************************************)
\* n hourly values: a in the first hour, b in the last, nothing between
Hourly(n, a, b) == [i \in 1..n |-> Some(IF i = 1 THEN a ELSE IF i = n THEN b ELSE 0)]

FloodGridForecastAnswers ==
    {Failed} \cup
    { [ok |-> TRUE, precipitation |-> Hourly(48, a, b)] :
        a \in {0, 5, 19, 20, 25, 49, 50, 60}, b \in {0, 20, 50} }
    \cup { [ok |-> TRUE, precipitation |-> h] :
             h \in { <<>>, <<Some(60)>>, Hourly(30, 5, 25),
                     Hourly(47, 25, 0) \o <<None>>, <<None>> \o Hourly(47, 0, 25) } }

FloodGridArchiveAnswers ==
    {Failed} \cup
    { [ok |-> TRUE, precipitation_sum |-> p] :
        p \in { <<Some(10)>>, <<Some(50)>>, <<Some(99), None>>,
                <<Some(60), Some(40)>> } }

\* lines 617-619: runs only when collect_signals_for_location gave no error
Flood(FAnswers, HAnswers) ==
    /\ pc = "done"
    /\ ~IsError(ret)
    /\ IsPending(flood)
    /\ \E fore \in FAnswers :
         LET f == Call("forecast", "check_flood", fore)
         IN  IF ~fore.ok \/ \E i \in 1..Len(fore.precipitation) :
                               i <= 24 /\ IsNone(fore.precipitation[i])
             THEN /\ flood' = check_flood(fore, Failed)
                  /\ calls' = Append(calls, f)
             ELSE \E hist \in HAnswers :
                  /\ flood' = check_flood(fore, hist)
                  /\ calls' = calls \o <<f, Call("archive", "check_flood", hist)>>
    /\ UNCHANGED <<pc, place_or_latlon, lat, lon, earthquake, weather, shelters,
                   hospitals, snowfall, hurricane, tsunami, wildfire, ret>>

\* check_flood(lat, lon) is about to be called for a literal coordinate
InitFlood ==
    /\ pc = "done"
    /\ place_or_latlon \in { i \in Inputs : ~IsNone(ParseLatLon(i)) }
    /\ lat = Some(Val(ParseLatLon(place_or_latlon))[1])
    /\ lon = Some(Val(ParseLatLon(place_or_latlon))[2])
    /\ earthquake = Pending /\ weather = Pending
    /\ shelters = Pending /\ hospitals = Pending
    /\ snowfall = Pending /\ hurricane = Pending
    /\ tsunami = Pending /\ wildfire = Pending
    /\ calls = <<>>
    /\ ret = Pending
    /\ flood = Pending

NextFlood == Flood(FloodGridForecastAnswers, FloodGridArchiveAnswers)

SpecFlood == InitFlood /\ [][NextFlood]_vars

FloodChecked == ~IsPending(flood)

\* C13: check_flood gives high when the next-24h or the trailing-24h sum is at
\* least 50, whatever the rest; otherwise moderate when either is at least 20 or
\* the 7-day historical sum is at least 100; otherwise low; possible is true
\* exactly when the severity is not low; and a historical sum that could not be
\* obtained never raises the severity.
C13_FloodTable ==
    (FloodChecked /\ ~IsError(flood)) =>
        LET fore == AnswerTo("check_flood", "forecast").precipitation
            hist == AnswerTo("check_flood", "archive")
            f == flood.evidence.forecast_24h_mm
            r == flood.evidence.recent_24h_mm_approx
            h == flood.evidence.precip_last7_mm
            table == IF f >= 50 \/ r >= 50 THEN "high"
                     ELSE IF f >= 20 \/ r >= 20 \/ (~IsNone(h) /\ Val(h) >= 100)
                     THEN "moderate"
                     ELSE "low"
            without == IF f >= 50 \/ r >= 50 THEN "high"
                       ELSE IF f >= 20 \/ r >= 20 THEN "moderate"
                       ELSE "low"
        IN  /\ f = SumKnown(Take(fore, 24))
            /\ r = (IF \E i \in 1..Len(fore) : i > Len(fore) - 24 /\ IsNone(fore[i])
                    THEN 0
                    ELSE SumKnown([i \in 1..Len(fore) |->
                                     IF i > Len(fore) - 24 THEN fore[i] ELSE None]))
            /\ (IsNone(h) <=> ~hist.ok)
            /\ (hist.ok => h = Some(SumKnown(hist.precipitation_sum)))
            /\ flood.severity = table
            /\ (flood.possible <=> flood.severity # "low")
            /\ (~hist.ok => flood.severity = without)

C13_Witness ==
    /\ FloodChecked /\ ~IsError(flood)
    /\ flood.evidence.forecast_24h_mm = 60
    /\ flood.evidence.precip_last7_mm = Some(10)
    /\ flood.severity = "high" /\ flood.possible

C13_WitnessHistory ==
    /\ FloodChecked /\ ~IsError(flood)
    /\ flood.evidence.forecast_24h_mm = 5
    /\ flood.evidence.recent_24h_mm_approx = 0
    /\ flood.evidence.precip_last7_mm = Some(100)
    /\ flood.severity = "moderate"

(***************************************************************************)
(* check_snowfall on its own, over a grid of snowfall series and           *)
(* temperatures                                                            *)
(***************************************************************************)
SnowfallGridAnswers ==
    {Failed} \cup
    { [ok |-> TRUE, snowfall_sum |-> sn, temperature |-> t] :
        sn \in { None, Some(<<>>), Some(<<None>>), Some(<<Some(0)>>), Some(<<Some(1)>>),
                 Some(<<Some(2), None>>), Some(<<Some(9), Some(3)>>),
                 Some(<<Some(10)>>), Some(<<Some(4), Some(15)>>) },
        t \in { None, Some(-10), Some(-5), Some(-4), Some(0), Some(1), Some(8) } }

\* check_snowfall(lat, lon) is about to be called for a literal coordinate
InitSnowfall ==
    /\ pc = "snowfall"
    /\ place_or_latlon \in { i \in Inputs : ~IsNone(ParseLatLon(i)) }
    /\ lat = Some(Val(ParseLatLon(place_or_latlon))[1])
    /\ lon = Some(Val(ParseLatLon(place_or_latlon))[2])
    /\ earthquake = Pending /\ weather = Pending
    /\ shelters = Pending /\ hospitals = Pending
    /\ snowfall = Pending /\ hurricane = Pending
    /\ tsunami = Pending /\ wildfire = Pending
    /\ calls = <<>>
    /\ ret = Pending
    /\ flood = Pending

NextSnowfall == Snowfall(SnowfallGridAnswers)

SpecSnowfall == InitSnowfall /\ [][NextSnowfall]_vars

SnowfallChecked == pc = "hurricane" /\ ~IsPending(snowfall)

\* C14: check_snowfall with a daily snowfall series gives high from a maximum of
\* 10, moderate from 2, else low, and possible exactly when the maximum is above
\* 0; with no series it falls back to the current temperature, possible exactly
\* when it is at most 0, moderate when it is at most -5, else low; with neither it
\* gives an error and no severity.
C14_SnowfallTable ==
    (SnowfallChecked /\ AnswerTo("check_snowfall", "forecast").ok) =>
        LET a == AnswerTo("check_snowfall", "forecast")
            series == IF IsNone(a.snowfall_sum) THEN <<>> ELSE Val(a.snowfall_sum)
        IN  IF series # <<>>
            THEN /\ ~IsError(snowfall)
                 /\ LET m == snowfall.max_snowfall
                    IN  /\ \A j \in 1..Len(series) :
                              ~IsNone(series[j]) => Val(series[j]) <= m
                        /\ (m > 0 => \E j \in 1..Len(series) : series[j] = Some(m))
                        /\ snowfall.severity = IF m >= 10 THEN "high"
                                               ELSE IF m >= 2 THEN "moderate"
                                               ELSE "low"
                        /\ (snowfall.possible <=> m > 0)
            ELSE IF ~IsNone(a.temperature)
            THEN /\ ~IsError(snowfall)
                 /\ (snowfall.possible <=> Val(a.temperature) <= 0)
                 /\ snowfall.severity =
                       IF Val(a.temperature) <= -5 THEN "moderate" ELSE "low"
            ELSE /\ IsError(snowfall)
                 /\ "severity" \notin DOMAIN snowfall
                 /\ "possible" \notin DOMAIN snowfall

C14_Witness ==
    /\ SnowfallChecked /\ ~IsError(snowfall)
    /\ IsNone(AnswerTo("check_snowfall", "forecast").snowfall_sum)
    /\ AnswerTo("check_snowfall", "forecast").temperature = Some(-5)
    /\ snowfall.possible /\ snowfall.severity = "moderate"

C14_WitnessSeries ==
    /\ SnowfallChecked /\ ~IsError(snowfall)
    /\ snowfall.max_snowfall = 10 /\ snowfall.severity = "high"

C14_WitnessNeither ==
    /\ SnowfallChecked /\ IsError(snowfall)
    /\ AnswerTo("check_snowfall", "forecast").ok

(***************************************************************************)
(* The assembly of the report on its own, from any results the clients can *)
(* return                                                                  *)
(***************************************************************************)
\* the most points of interest an Overpass answer holds here
MaxPlanFound == 4

PlanPoiAnswers == {Failed} \cup { [ok |-> TRUE, found |-> Desc(n)] : n \in 0..MaxPlanFound }

\* lines 407-475 are about to run for a literal coordinate
InitPlan ==
    /\ pc = "assemble"
    /\ place_or_latlon = <<"10", "20">>
    /\ lat = Some(Val(ParseLatLon(place_or_latlon))[1])
    /\ lon = Some(Val(ParseLatLon(place_or_latlon))[2])
    /\ earthquake \in { check_earthquake(a) : a \in QuakeAnswers }
    /\ weather \in { get_weather(a) : a \in WeatherAnswers }
    /\ shelters \in { find_schools(a) : a \in PlanPoiAnswers }
    /\ hospitals \in { find_hospitals(a) : a \in PlanPoiAnswers }
    /\ snowfall \in { check_snowfall(a) : a \in SnowAnswers }
    /\ hurricane \in { check_hurricane(a) : a \in WindAnswers }
    /\ tsunami \in { check_tsunami(q, c) : q \in TsunamiQuakeAnswers, c \in CoastAnswers }
    /\ wildfire \in { check_wildfire(a, w) :
                        a \in ArchiveAnswers, w \in WildfireWeatherAnswers }
    /\ calls = <<>>
    /\ ret = Pending
    /\ flood = Pending

NextPlan == Assemble

SpecPlan == InitPlan /\ [][NextPlan]_vars

NotLow == { h \in Hazards : ret.final_severities[h] # "low" }

\* C15: the plan has one block for exactly the hazards among earthquake,
\* snowfall, hurricane, tsunami, wildfire whose final severity is not low, in that
\* order, each headed by the hazard and its severity; no line is about flood; and
\* the plan is empty when every final severity is low.
C15_PlanBlocks ==
    Reported =>
        LET plan == ret.action_plan
            IsHeader(l) == l.line = "header"
            Wanted(h) == ret.final_severities[h] # "low"
            headers == SelectSeq(plan, IsHeader)
            expected == SelectSeq(HazardOrder, Wanted)
        IN  /\ Len(headers) = Len(expected)
            /\ \A k \in 1..Len(headers) :
                 /\ headers[k].hazard = expected[k]
                 /\ headers[k].sev = ret.final_severities[expected[k]]
            /\ \A i \in 1..Len(plan) :
                 /\ plan[i].hazard \in NotLow
                 /\ plan[i].hazard # "flood"
                 /\ (i = 1 => IsHeader(plan[i]))
                 /\ (i > 1 /\ ~IsHeader(plan[i])) => plan[i].hazard = plan[i - 1].hazard
            /\ (NotLow = {} <=> plan = <<>>)

C15_Witness ==
    /\ Reported
    /\ NotLow = {"snowfall", "tsunami", "wildfire"}
    /\ Len(ret.action_plan) > 0

C15_WitnessEmpty ==
    /\ Reported /\ NotLow = {} /\ ret.action_plan = <<>>

\* the lines of the block whose header is line i of the plan, header excluded
Block(plan, i) ==
    LET later == { j \in (i + 1)..Len(plan) : plan[j].line = "header" }
        stop == IF later = {} THEN Len(plan) + 1
                ELSE CHOOSE j \in later : \A k \in later : j <= k
    IN  SubSeq(plan, i + 1, stop - 1)

CountLines(b, kind) == Cardinality({ j \in 1..Len(b) : b[j].line = kind })

\* the references of a block stay within three per kind, and come after the
\* directives: hospitals, then shelters (then, for earthquake, the warning of C17)
RefsWithinThree(b, nd) ==
    /\ CountLines(b, "hospitals") <= 1
    /\ CountLines(b, "shelters") <= 1
    /\ \A j \in 1..Len(b) :
         /\ b[j].line \in {"hospitals", "shelters"} =>
               /\ j > nd
               /\ Len(b[j].refs) >= 1
               /\ Len(b[j].refs) <= 3
         /\ b[j].line = "hospitals" =>
               /\ b[j].refs = SubSeq(ret.hospitals.hospitals, 1, Len(b[j].refs))
               /\ (Len(b[j].refs) < 3 => Len(b[j].refs) = Len(ret.hospitals.hospitals))
         /\ b[j].line = "shelters" =>
               /\ b[j].refs = SubSeq(ret.shelters.shelters, 1, Len(b[j].refs))
               /\ (Len(b[j].refs) < 3 => Len(b[j].refs) = Len(ret.shelters.shelters))
         /\ (j > 1 /\ b[j].line = "hospitals") => b[j - 1].line = "directive"
         /\ (j > 1 /\ b[j].line = "shelters") =>
               b[j - 1].line \in {"directive", "hospitals"}

\* C16 as stated: every block is a header, then between 2 and 4 fixed directives
\* of its hazard, then at most 3 hospital and at most 3 shelter references.
C16_Original ==
    Reported =>
        \A i \in 1..Len(ret.action_plan) :
            ret.action_plan[i].line = "header" =>
                LET b == Block(ret.action_plan, i)
                    nd == CountLines(b, "directive")
                IN  /\ nd >= 2 /\ nd <= 4
                    /\ \A j \in 1..nd : b[j] = Directive(ret.action_plan[i].hazard, j)
                    /\ RefsWithinThree(b, nd)

\* C16 amended: every block is a header, then the fixed directives of its hazard
\* (two, but one in the tsunami block), then at most 3 hospital and at most 3
\* shelter references, however many were found.
C16_BlockShape ==
    Reported =>
        \A i \in 1..Len(ret.action_plan) :
            ret.action_plan[i].line = "header" =>
                LET b == Block(ret.action_plan, i)
                    nd == CountLines(b, "directive")
                IN  /\ nd = (IF ret.action_plan[i].hazard = "tsunami" THEN 1 ELSE 2)
                    /\ \A j \in 1..nd : b[j] = Directive(ret.action_plan[i].hazard, j)
                    /\ RefsWithinThree(b, nd)

C16_Witness ==
    /\ Reported
    /\ ~IsError(ret.hospitals) /\ ~IsError(ret.shelters)
    /\ Len(ret.hospitals.hospitals) = 4
    /\ Len(ret.shelters.shelters) = 4
    /\ \E i \in 1..Len(ret.action_plan) :
         /\ ret.action_plan[i].line = "hospitals"
         /\ ret.action_plan[i].hazard = "tsunami"
         /\ Len(ret.action_plan[i].refs) = 3

\* C17: the plan has the tsunami-risk warning exactly when the earthquake final
\* severity is not low and the tsunami final severity is moderate or high; it then
\* appears once, inside the earthquake block, before the header of any later
\* hazard; with a low earthquake severity it never appears.
C17_TsunamiWarning ==
    Reported =>
        LET plan == ret.action_plan
            at == { i \in 1..Len(plan) : plan[i].line = "tsunami_warning" }
        IN  /\ (at # {}) <=> (/\ ret.final_severities.earthquake # "low"
                              /\ ret.final_severities.tsunami \in {"moderate", "high"})
            /\ Cardinality(at) <= 1
            /\ \A i \in at :
                 /\ plan[1] = Header("earthquake", ret.final_severities.earthquake)
                 /\ \A j \in 2..i : plan[j].line # "header"
            /\ (ret.final_severities.earthquake = "low" => at = {})

C17_Witness ==
    /\ Reported
    /\ ret.final_severities.earthquake = "moderate"
    /\ ret.final_severities.tsunami = "moderate"
    /\ \E i \in 1..Len(ret.action_plan) : ret.action_plan[i].line = "tsunami_warning"

C17_WitnessLowQuake ==
    /\ Reported
    /\ ret.final_severities.earthquake = "low"
    /\ ret.final_severities.tsunami = "high"

(***************************************************************************)
(* One run of the app for a literal coordinate: the assessment, then the   *)
(* Flood tab                                                               *)
(***************************************************************************)
AppSnowAnswers ==
    { Failed,
      [ok |-> TRUE, snowfall_sum |-> Some(<<Some(1)>>), temperature |-> None],
      [ok |-> TRUE, snowfall_sum |-> Some(<<Some(3), None>>), temperature |-> None],
      [ok |-> TRUE, snowfall_sum |-> Some(<<Some(12)>>), temperature |-> Some(1)],
      [ok |-> TRUE, snowfall_sum |-> None, temperature |-> Some(-5)],
      [ok |-> TRUE, snowfall_sum |-> Some(<<>>), temperature |-> Some(1)] }

AppWindAnswers ==
    {Failed} \cup { [ok |-> TRUE, windspeed_10m |-> w] :
                      w \in { <<Some(49)>>, <<Some(50)>>, <<Some(20), Some(75)>>,
                              <<Some(100)>> } }

AppTsunamiQuakeAnswers ==
    {Failed} \cup Mags({ <<Some(64)>>, <<Some(65)>>, <<Some(70)>> })

AppFloodForecastAnswers ==
    {Failed} \cup { [ok |-> TRUE, precipitation |-> h] :
                      h \in { Hourly(48, 0, 0), Hourly(48, 25, 0), Hourly(48, 0, 60) } }

AppFloodArchiveAnswers ==
    { Failed, [ok |-> TRUE, precipitation_sum |-> <<Some(60), Some(40)>>] }

\* line 399 is about to run for the literal coordinate "10,20"
InitApp ==
    /\ pc = "earthquake"
    /\ place_or_latlon = <<"10", "20">>
    /\ lat = Some(Val(ParseLatLon(place_or_latlon))[1])
    /\ lon = Some(Val(ParseLatLon(place_or_latlon))[2])
    /\ earthquake = Pending /\ weather = Pending
    /\ shelters = Pending /\ hospitals = Pending
    /\ snowfall = Pending /\ hurricane = Pending
    /\ tsunami = Pending /\ wildfire = Pending
    /\ calls = <<>>
    /\ ret = Pending
    /\ flood = Pending

NextApp ==
    \/ Earthquake(QuakeAnswers)
    \/ Weather
    \/ Shelters
    \/ Hospitals
    \/ Snowfall(AppSnowAnswers)
    \/ Hurricane(AppWindAnswers)
    \/ Tsunami(AppTsunamiQuakeAnswers, CoastAnswers)
    \/ Wildfire(ArchiveAnswers, WildfireWeatherAnswers)
    \/ Assemble
    \/ Flood(AppFloodForecastAnswers, AppFloodArchiveAnswers)

SpecApp == InitApp /\ [][NextApp]_vars

\* the result is a classification (neither awaited nor an error)
Classified(r) == ~IsPending(r) /\ ~IsError(r)

\* C18: in every non-error result the possible flag agrees with the severity: for
\* snowfall and hurricane a moderate or high severity has possible true; for
\* tsunami and flood possible is true exactly when the severity is not low; and a
\* non-error earthquake result has possible true exactly when the report's
\* earthquake final severity is not low.
C18_PossibleAgreesWithSeverity ==
    /\ Classified(snowfall) =>
          (snowfall.severity \in {"moderate", "high"} => snowfall.possible)
    /\ Classified(hurricane) =>
          (hurricane.severity \in {"moderate", "high"} => hurricane.possible)
    /\ Classified(tsunami) => (tsunami.possible <=> tsunami.severity # "low")
    /\ Classified(flood) => (flood.possible <=> flood.severity # "low")
    /\ (Reported /\ ~IsError(ret.earthquake)) =>
          /\ ret.earthquake = earthquake
          /\ ret.snowfall = snowfall /\ ret.hurricane = hurricane
          /\ ret.tsunami = tsunami
          /\ (ret.earthquake.possible <=> ret.final_severities.earthquake # "low")

C18_Witness ==
    /\ Reported
    /\ Classified(earthquake) /\ Classified(snowfall) /\ Classified(hurricane)
    /\ Classified(tsunami) /\ Classified(flood)
    /\ earthquake.magnitude_estimate = 45 /\ earthquake.possible
    /\ snowfall.max_snowfall = 0 /\ snowfall.severity = "moderate" /\ snowfall.possible
    /\ hurricane.severity = "low" /\ hurricane.possible
    /\ tsunami.severity = "moderate" /\ tsunami.possible
    /\ flood.severity = "moderate" /\ flood.possible

====
